---- MODULE Spec2Model ----
(***************************************************************************)
(* Model of the glyph-grid background widget                               *)
(* (DataScrambleParallaxBackground) and of its seeded generator            *)
(* (utils/seededRandom.ts, Mulberry32).                                    *)
(*                                                                         *)
(* Numbers.  An integer-valued JavaScript number N is the pair <<q, r>>    *)
(* with N = q * 65536 + r and 0 <= r < 65536; q may be negative or exceed  *)
(* 65535, so a number outside the 32-bit range is representable and the    *)
(* conversions ToInt32 / ToUint32 do real work.                            *)
(* Fractions (scroll offsets, velocities, probabilities) are fixed-point   *)
(* integers in units of 1/Scale.                                           *)
(***************************************************************************)
EXTENDS Integers, Sequences, FiniteSets, TLC

VARIABLES
    \* ---- generator harness (SpecPrng) ----
    seedIn,      \* seedIn[g]: the seed generator g was created with
    cells,       \* cells[c]: the closure variable s stored in cell c
    outs,        \* outs[g]: the values returned so far by generator g,
                 \*          each as the numerator of value = numerator / 2^32
    \* ---- one generator called many times (SpecPrngLong) ----
    longSeed,    \* its seed
    longS,       \* its closure variable s
    longCalls,   \* calls made so far
    longOut,     \* numerator of the last value returned, <<0, 0>> before any call
    \* ---- the widget: props and environment ----
    isClient,    \* typeof window !== 'undefined'
    ctx,         \* the canvas is there and getContext('2d') returns a context
    listeners,   \* the events the widget has a listener registered for
    props,       \* [density, glyphsLen, parallaxStrength, scrambleFrequency]
    win,         \* [iw, ih: window.innerWidth/Height, cw, ch: canvas.clientWidth/Height]
    scrollY,     \* window.scrollY
    mediaMatches,\* matchMedia('(prefers-reduced-motion: reduce)').matches
    clock,       \* performance.now(), ms
    \* ---- the widget: React state, memos and refs ----
    mounted,
    reducedMotion,   \* state of usePrefersReducedMotion
    seedKey,
    randS,           \* closure variable s of the memoised generator `rand`
    gridRef,         \* NoGrid or <<[cols, rows, cell, offsetX, offsetY]>>
    baseGridRef,     \* NoGrid or <<the sequence of glyph indices, cell i at i + 1>>
    scrambleMapRef,  \* the Map, as the set of its entries [idx, glyphIndex, until]
    lastTimestampRef,
    scrollTargetRef,
    scrollSmoothedRef,   \* fixed point
    velocityRef,         \* fixed point
    lastScrollRef,       \* [y, t]
    mouseOffsetRef,      \* [x, y], fixed point
    rafRef,              \* handle of the last draw request, 0 for null
    \* ---- the widget: effect closures and the animation-frame queue ----
    resizeFrame,     \* `frame` of the resize effect: a handle, 0 for null
    loop,            \* render effect in force: [epoch, running, reduced]
    rafQueue,        \* callbacks requested, in request order: [h, cb, ep]
    batch,           \* callbacks of the animation frame being run
    frameT,          \* timestamp handed to the callbacks of that frame
    \* ---- history ----
    render,          \* what the last render pass did (<<record>>), NoRender before the first
    gridCalls,       \* computeGrid calls so far: [inputs, buf] each
    nScroll, nResize, nToggle   \* event counters, bounded

(***************************************************************************)
(* 32-bit arithmetic on <<q, r>> numbers                                   *)
(***************************************************************************)
B16 == 256 * 256

Norm(q, r) == <<q + (r \div B16), r % B16>>

NumAdd(a, b) == Norm(a[1] + b[1], a[2] + b[2])

\* ECMAScript ToUint32: N modulo 2^32
ToUint32(a) == <<a[1] % B16, a[2]>>

\* ECMAScript ToInt32: N modulo 2^32, read as two's complement
ToInt32(a) == LET u == a[1] % B16 IN <<IF u >= 32768 THEN u - B16 ELSE u, a[2]>>

RECURSIVE BitXor(_, _, _)
BitXor(x, y, n) ==
    IF n = 0 THEN 0 ELSE ((x + y) % 2) + 2 * BitXor(x \div 2, y \div 2, n - 1)

RECURSIVE BitOr(_, _, _)
BitOr(x, y, n) ==
    IF n = 0 THEN 0
    ELSE (IF (x % 2) + (y % 2) > 0 THEN 1 ELSE 0) + 2 * BitOr(x \div 2, y \div 2, n - 1)

\* a ^ b : operands through ToInt32, result an int32
Xor32(a, b) ==
    LET ua == ToUint32(a)
        ub == ToUint32(b)
    IN  ToInt32(<<BitXor(ua[1], ub[1], 16), BitXor(ua[2], ub[2], 16)>>)

\* a | b : operands through ToInt32, result an int32
Or32(a, b) ==
    LET ua == ToUint32(a)
        ub == ToUint32(b)
    IN  ToInt32(<<BitOr(ua[1], ub[1], 16), BitOr(ua[2], ub[2], 16)>>)

RECURSIVE Pow2(_)
Pow2(n) == IF n = 0 THEN 1 ELSE 2 * Pow2(n - 1)

\* a >>> n for 0 <= n < 16 : operand through ToUint32, result a uint32
Shr(a, n) ==
    LET u == ToUint32(a)
        p == Pow2(n)
    IN  <<u[1] \div p, (u[2] \div p) + (u[1] % p) * (B16 \div p)>>

\* x * y modulo 2^16 for 16-bit x, y, without leaving the 32-bit integers
MulMod16(x, y) ==
    LET x0 == x % 256
        x1 == x \div 256
        y0 == y % 256
        y1 == y \div 256
    IN  (x0 * y0 + ((x1 * y0 + x0 * y1) % 256) * 256) % B16

\* Math.imul(a, b) : low 32 bits of the product, as an int32
Imul(a, b) ==
    LET ua == ToUint32(a)
        ub == ToUint32(b)
        a0 == ua[2] % 256
        a1 == ua[2] \div 256
        b0 == ub[2] % 256
        b1 == ub[2] \div 256
        mid == a1 * b0 + a0 * b1
        lowlow == Norm(a1 * b1 + (mid \div 256), a0 * b0 + (mid % 256) * 256)
        cross == MulMod16(ua[1], ub[2]) + MulMod16(ua[2], ub[1])
    IN  ToInt32(<<lowlow[1] + cross, lowlow[2]>>)

(***************************************************************************)
(* utils/seededRandom.ts                                                   *)
(***************************************************************************)
\* 0x9e3779b9, the seed used in place of 0
GoldenSeed == <<40503, 31161>>

\* 0x6D2B79F5, the per-call increment
Increment == <<27947, 31221>>

\* the constructor without its `|| 0x9e3779b9`
createSeededRandomNoFallback(seed) == ToUint32(seed)

\* let s = seed >>> 0 || 0x9e3779b9
createSeededRandom(seed) ==
    LET u == ToUint32(seed) IN IF u = <<0, 0>> THEN GoldenSeed ELSE u

\* s += 0x6D2B79F5  (a plain number addition: nothing wraps s)
Advance(s) == NumAdd(s, Increment)

\* Mix without the final >>> 0: the signed result of ^
MixSigned(s) ==
    LET t1 == Imul(Xor32(s, Shr(s, 15)), Or32(s, <<0, 1>>))
        t2 == Xor32(t1, NumAdd(t1, Imul(Xor32(t1, Shr(t1, 7)), Or32(t1, <<0, 61>>))))
    IN  Xor32(t2, Shr(t2, 14))

\* lines 11-14: the value returned for the advanced state s, before the
\* division by 4294967296
Mix(s) ==
    LET t1 == Imul(Xor32(s, Shr(s, 15)), Or32(s, <<0, 1>>))
        t2 == Xor32(t1, NumAdd(t1, Imul(Xor32(t1, Shr(t1, 7)), Or32(t1, <<0, 61>>))))
    IN  ToUint32(Xor32(t2, Shr(t2, 14)))

(***************************************************************************)
(* The widget: numeric helpers                                             *)
(***************************************************************************)
\* fractions are integers in units of 1/Scale
Scale == 10 * 10 * 10

Max(a, b) == IF a >= b THEN a ELSE b
Min(a, b) == IF a <= b THEN a ELSE b
Abs(a) == IF a < 0 THEN 0 - a ELSE a

\* n / d rounded to the nearest integer (d > 0)
RoundDiv(n, d) == (2 * n + d) \div (2 * d)

\* clamp without its upper limit
clampNoUpper(v, lo, hi) == Max(lo, v)

\* const clamp = (v, min, max) => Math.max(min, Math.min(max, v))
clamp(v, lo, hi) == Max(lo, Min(hi, v))

\* const lerp = (a, b, t) => a + (b - a) * t, t a fixed-point fraction
lerp(a, b, t) == a + RoundDiv((b - a) * t, Scale)

\* the number n as a <<q, r>> pair
ToNum(n) == <<n \div B16, n % B16>>

\* k * a for a small integer k
NumMulInt(k, a) == Norm(k * a[1], k * a[2])

\* Math.floor(x * len) for x = numerator / 2^32
FloorScale(numerator, len) ==
    (numerator[1] * len + ((numerator[2] * len) \div B16)) \div B16

(***************************************************************************)
(* The widget: props, seed and grid layout                                 *)
(***************************************************************************)
Unset == <<>>

\* the density prop is <<d>>, d in hundredths, or Unset when left undefined
DensityDefaultMobile == 90
DensityDefaultDesktop == 100
BaseCell == 20
CellMin == 16
CellMax == 24
MobileWidth == 768
DesktopWidth == 1024
SeedPrimeW == 73856093
SeedPrimeH == 19349663

\* a ref that is null is <<>>, one that is set is <<value>>
NoGrid == <<>>

\* the comparison the wrong way round
isMobileInverted(w) == w.iw >= MobileWidth

\* line 96: window.innerWidth < 768
isMobile(w) == w.iw < MobileWidth

\* lines 78-82: (w * 73856093) ^ (h * 19349663)
SeedKeyOf(w) ==
    Xor32(NumMulInt(w.iw, ToNum(SeedPrimeW)), NumMulInt(w.ih, ToNum(SeedPrimeH)))

\* lines 95-98: density ?? (isMobile ? 0.9 : 1.0), then
\* clamp(Math.round(baseCell * densityMul), 16, 24)
DensityMul(density, w) ==
    IF density = Unset
    THEN (IF isMobile(w) THEN DensityDefaultMobile ELSE DensityDefaultDesktop)
    ELSE density[1]

\* Math.round(20 * d / 100): the nearest integer, halves upwards
RoundCell(d) == (2 * BaseCell * d + 100) \div 200

CellOf(density, w) == clamp(RoundCell(DensityMul(density, w)), CellMin, CellMax)

\* Math.ceil in place of Math.floor
CeilCount(size, cell) == (size + cell - 1) \div cell

\* Math.floor(size / cell)
Count(size, cell) == size \div cell

\* the difference taken the wrong way round
OffsetSwapped(size, total) == (total - size) \div 2

\* Math.floor((size - total) / 2)
Offset(size, total) == (size - total) \div 2

\* lines 100-108
GridOf(density, w) ==
    LET cell == CellOf(density, w)
        cols == Count(w.cw, cell)
        rows == Count(w.ch, cell)
    IN  [cols |-> cols, rows |-> rows, cell |-> cell,
         offsetX |-> Offset(w.cw, cols * cell),
         offsetY |-> Offset(w.ch, rows * cell)]

\* the generator's state after k further calls of rand(): k additions of the
\* increment (Advance, k times)
AdvanceBy(s, k) == NumAdd(s, NumMulInt(k, Increment))

\* lines 110-115: n calls of rand(), from generator state s; the pair
\* <<buffer, generator state afterwards>>, the i-th call filling element i.
\* A Uint16Array element keeps the low 16 bits of what is stored.
FillBuffer(s, n, len, buf) ==
    <<buf \o [i \in 1..n |-> FloorScale(Mix(AdvanceBy(s, i)), len) % B16], AdvanceBy(s, n)>>

\* the buffer sized by the rows alone
TotalCellsRowsOnly(gm) == gm.rows * gm.rows

\* line 110: const totalCells = cols * rows
TotalCells(gm) == gm.cols * gm.rows

\* what a grid computation depends on, by the claim about repeated computations
GridInputs(w) == [density |-> props.density, glyphsLen |-> props.glyphsLen,
                  iw |-> w.iw, ih |-> w.ih, cw |-> w.cw, ch |-> w.ch]

\* computeGrid(ctx), lines 86-116; the metrics and the buffer are computed
\* once and then stored
computeGrid ==
    \E gm \in {GridOf(props.density, win)} :
    \E filled \in {FillBuffer(randS, TotalCells(gm), props.glyphsLen, <<>>)} :
        /\ gridRef' = <<gm>>
        /\ baseGridRef' = <<filled[1]>>
        /\ randS' = filled[2]
        /\ gridCalls' = Append(gridCalls, [inputs |-> GridInputs(win), buf |-> filled[1]])

(***************************************************************************)
(* The widget: animation-frame requests                                    *)
(***************************************************************************)
RECURSIVE HandlesOf(_)
HandlesOf(q) == IF q = <<>> THEN {} ELSE {Head(q).h} \cup HandlesOf(Tail(q))

UsedHandles == HandlesOf(rafQueue) \cup HandlesOf(batch) \cup {rafRef, resizeFrame}

\* requestAnimationFrame returns a handle no pending or remembered request has
NewHandle == CHOOSE h \in 1..(Cardinality(UsedHandles) + 1) : h \notin UsedHandles

RECURSIVE Without(_, _)
Without(q, h) ==
    IF q = <<>> THEN <<>>
    ELSE IF Head(q).h = h THEN Without(Tail(q), h)
    ELSE <<Head(q)>> \o Without(Tail(q), h)

\* cancelAnimationFrame(h), guarded by `if (h)` at every call site
Cancel(q, h) == IF h = 0 THEN q ELSE Without(q, h)

(***************************************************************************)
(* The widget: scramble set                                                *)
(***************************************************************************)
\* the Map is the set of its entries [idx, glyphIndex, until], one per idx
MapSet(m, idx, glyphIndex, until) ==
    {e \in m : e.idx # idx} \cup {[idx |-> idx, glyphIndex |-> glyphIndex, until |-> until]}

\* the purge with < in place of <=
PurgeStrict(m, now) == {e \in m : ~(e.until < now)}

\* lines 257-262: if (vcell.until <= now) delete
Purge(m, now) == {e \in m : ~(e.until <= now)}

\* the else branch without its clear()
ReducedKeep(m) == m

\* line 264: scrambleMapRef.current.clear()
ReducedClear(m) == {}

\* values of Math.random() the model draws, in thousandths: both ends of
\* [0, 1) for the cell and for the lifetime (an entry that expires at the next
\* frame and one that outlives it), the upper end for the glyph
RandomSamples == {0, 999}
TtlSamples == {0, 999}
GlyphSamples == {999}

FloorFrac(r, n) == (r * n) \div 1000

TtlBase == 200
TtlSpan == 150

\* one iteration of the loop of lines 248-255: the three Math.random() draws
Picks(total, len) ==
    { [idx |-> FloorFrac(r1, total), ttl |-> TtlBase + FloorFrac(r2, TtlSpan),
       glyphIndex |-> FloorFrac(r3, len)] : r1 \in RandomSamples, r2 \in TtlSamples,
                                            r3 \in GlyphSamples }

RECURSIVE InsertAll(_, _, _)
InsertAll(m, picks, now) ==
    IF picks = <<>> THEN m
    ELSE InsertAll(MapSet(m, Head(picks).idx, Head(picks).glyphIndex, now + Head(picks).ttl),
                   Tail(picks), now)

\* lines 240-243, in units of 1 / (100 * Scale^2):
\*   cap = clamp(v * 1.6, 0, 0.22); freq = (isMobile() ? 0.6 : 1) * scrambleFrequency;
\*   p = clamp(freq * cap, 0, 0.16)
PUnit == 100 * Scale * Scale

ScrambleP(v, w) ==
    LET cap10 == clamp(v * 16, 0, (22 * 10 * Scale) \div 100)
        freq10 == (IF isMobile(w) THEN 6 ELSE 10) * props.scrambleFrequency
    IN  clamp(freq10 * cap10, 0, (16 * PUnit) \div 100)

\* p > 0.005
PGate(p) == p > (5 * PUnit) \div 1000

\* line 246: Math.max(1, Math.floor(totalCells * clamp(p, 0.01, 0.12)))
ScrambleCount(total, p) ==
    LET pc == clamp(p, PUnit \div 100, (12 * PUnit) \div 100)
        hi == pc \div 10000
        lo == pc % 10000
    IN  Max(1, (total * hi + ((total * lo) \div 10000)) \div (PUnit \div 10000))

\* 0.08 (line 233) and 0.35 (line 166) as fractions
SmoothFactor == (8 * Scale) \div 100
VelocityFactor == (35 * Scale) \div 100
DtFallback == 16

NoRender == <<>>

(***************************************************************************)
(* The widget: bounds and input sets                                       *)
(***************************************************************************)
MaxClock == 500
MaxScrolls == 1
MaxResizes == 2
MaxToggles == 1

\* performance.now() at mount, time between animation frames, and time that
\* passes between the frame's timestamp and the performance.now() calls inside
\* the callback; a scroll event comes ScrollSteps after the previous one
MountClocks == {100}
FrameSteps == {200}
Lags == {0, 100}
ScrollSteps == {0}
ScrollYs == {0, 100}

\* window and canvas sizes: a desktop window with a 2 x 2 grid, and a mobile
\* window whose canvas is narrower than one cell (no columns)
Layouts ==
    { [iw |-> 1024, ih |-> 768, cw |-> 50, ch |-> 40],
      [iw |-> 500, ih |-> 800, cw |-> 10, ch |-> 80] }

\* the defaults of lines 54-59
PropsSet ==
    { [density |-> Unset, glyphsLen |-> 36, parallaxStrength |-> (8 * Scale) \div 100,
       scrambleFrequency |-> (8 * Scale) \div 100] }

\* pointer positions: corners of the window
Pointers == {"bottomRight"}

(***************************************************************************)
(* The widget: handlers                                                    *)
(***************************************************************************)
\* events are drawn while another animation frame fits before MaxClock
Horizon == \E d \in FrameSteps : clock + d <= MaxClock

hostVars == <<isClient, ctx>>
envVars == <<props, win, scrollY, mediaMatches, clock>>
gridVars == <<seedKey, randS, gridRef, baseGridRef, gridCalls>>
motionVars == <<scrollTargetRef, scrollSmoothedRef, velocityRef, lastScrollRef, mouseOffsetRef>>
frameVars == <<scrambleMapRef, lastTimestampRef, rafRef, render>>
effectVars == <<mounted, reducedMotion, resizeFrame, loop, rafQueue, batch, frameT>>
countVars == <<nScroll, nResize, nToggle>>
widgetVars ==
    <<hostVars, listeners, envVars, gridVars, motionVars, frameVars, effectVars,
      countVars>>

\* onScroll, lines 158-168, for scroll position y at time now; the new
\* [target, velocity, lastScroll]
onScroll(y, now, vel, last) ==
    LET dt == IF now - last.t = 0 THEN DtFallback ELSE now - last.t
        dy == y - last.y
        v == RoundDiv(Abs(dy) * Scale, Max(1, dt))
    IN  [target |-> y, velocity |-> lerp(vel, v, VelocityFactor), last |-> [y |-> y, t |-> now]]

\* window.innerWidth / innerHeight as seedKey reads them (lines 79-80)
SeedViewport == IF isClient THEN win ELSE [iw |-> 1024, ih |-> 768]

\* the state after mount: every effect has run once, in the order of the hooks
\* (the media-query effect, the grid effect, the listeners, the render loop),
\* each returning early as its guards say (lines 37, 135-139, 156, 189-193)
WidgetInit ==
    /\ isClient \in BOOLEAN
    /\ ctx \in (IF isClient THEN BOOLEAN ELSE {FALSE})
    /\ props \in PropsSet
    /\ win \in Layouts
    /\ scrollY = 0
    /\ mediaMatches \in (IF isClient THEN BOOLEAN ELSE {FALSE})
    /\ clock \in MountClocks
    /\ mounted = TRUE
    /\ reducedMotion = (isClient /\ mediaMatches)
    /\ seedKey = SeedKeyOf(SeedViewport)
    /\ LET gm == GridOf(props.density, win)
           filled == FillBuffer(createSeededRandom(seedKey), TotalCells(gm),
                                props.glyphsLen, <<>>)
       IN  IF isClient /\ ctx
           THEN /\ gridRef = <<gm>>
                /\ baseGridRef = <<filled[1]>>
                /\ randS = filled[2]
                /\ gridCalls = <<[inputs |-> GridInputs(win), buf |-> filled[1]]>>
           ELSE /\ gridRef = NoGrid
                /\ baseGridRef = NoGrid
                /\ randS = createSeededRandom(seedKey)
                /\ gridCalls = <<>>
    /\ LET sc == IF isClient THEN onScroll(scrollY, clock, 0, [y |-> 0, t |-> 0])
                 ELSE [target |-> 0, velocity |-> 0, last |-> [y |-> 0, t |-> 0]]
       IN  /\ scrollTargetRef = sc.target
           /\ velocityRef = sc.velocity
           /\ lastScrollRef = sc.last
    /\ listeners = (IF isClient THEN {"change", "scroll", "mousemove"} ELSE {})
                        \cup (IF isClient /\ ctx THEN {"resize"} ELSE {})
    /\ scrollSmoothedRef = 0
    /\ mouseOffsetRef = [x |-> 0, y |-> 0]
    /\ scrambleMapRef = {}
    /\ lastTimestampRef = 0
    /\ resizeFrame = 0
    /\ IF isClient /\ ctx
       THEN /\ loop = [epoch |-> 1, running |-> TRUE, reduced |-> FALSE]
            /\ rafRef = 1
            /\ rafQueue = <<[h |-> 1, cb |-> "draw", ep |-> 1]>>
       ELSE /\ loop = [epoch |-> 0, running |-> FALSE, reduced |-> FALSE]
            /\ rafRef = 0
            /\ rafQueue = <<>>
    /\ batch = <<>>
    /\ frameT = 0
    /\ render = NoRender
    /\ nScroll = 0 /\ nResize = 0 /\ nToggle = 0

\* a scroll event reaches onScroll
Scroll(y, d) ==
    /\ Horizon /\ "scroll" \in listeners /\ batch = <<>>
    /\ nScroll < MaxScrolls
    /\ clock + d <= MaxClock
    /\ y # scrollY
    /\ clock' = clock + d
    /\ scrollY' = y
    /\ LET sc == onScroll(y, clock', velocityRef, lastScrollRef)
       IN  /\ scrollTargetRef' = sc.target
           /\ velocityRef' = sc.velocity
           /\ lastScrollRef' = sc.last
    /\ nScroll' = nScroll + 1
    /\ UNCHANGED <<hostVars, listeners, props, win, mediaMatches, gridVars,
                   scrollSmoothedRef, mouseOffsetRef, frameVars, effectVars, nResize, nToggle>>

\* onMouseMove, lines 170-176: clamp((e.clientX - cx) / cx, -1, 1) * 2
PointerOffset(pos, size) ==
    LET c2 == size   \* 2 * cx
    IN  2 * clamp(RoundDiv((2 * pos - c2) * Scale, c2), 0 - Scale, Scale)

MouseMove(corner) ==
    /\ Horizon /\ "mousemove" \in listeners /\ batch = <<>>
    /\ LET ex == IF corner = "topLeft" THEN 0 ELSE win.iw
           ey == IF corner = "topLeft" THEN 0 ELSE win.ih
       IN  mouseOffsetRef' =
               IF win.iw < DesktopWidth THEN mouseOffsetRef
               ELSE [x |-> PointerOffset(ex, win.iw), y |-> PointerOffset(ey, win.ih)]
    /\ mouseOffsetRef' # mouseOffsetRef
    /\ UNCHANGED <<hostVars, listeners, envVars, gridVars, scrollTargetRef,
                   scrollSmoothedRef, velocityRef, lastScrollRef, frameVars, effectVars,
                   countVars>>

\* requestAnimationFrame(cb) by the effect closure ep, returning handle h
Request(q, h, cb, ep) == Append(q, [h |-> h, cb |-> cb, ep |-> ep])

\* onResize without its cancelAnimationFrame
keepPendingGrid(q) == q

\* if (frame) cancelAnimationFrame(frame), lines 143 and 151
cancelPendingGrid(q) == Cancel(q, resizeFrame)

\* the window is resized; onResize, lines 142-145, runs if it is registered
Resize(w) ==
    /\ Horizon /\ mounted /\ isClient /\ batch = <<>>
    /\ nResize < MaxResizes
    /\ w # win
    /\ win' = w
    /\ IF "resize" \in listeners
       THEN /\ resizeFrame' = NewHandle
            /\ rafQueue' = Request(cancelPendingGrid(rafQueue), NewHandle, "grid", 0)
       ELSE UNCHANGED <<resizeFrame, rafQueue>>
    /\ nResize' = nResize + 1
    /\ UNCHANGED <<hostVars, listeners, props, scrollY, mediaMatches, clock,
                   gridVars, motionVars, frameVars, mounted, reducedMotion, loop, batch,
                   frameT, nScroll, nToggle>>

\* the media query changes: handler, line 39
MediaChange ==
    /\ Horizon /\ "change" \in listeners /\ batch = <<>>
    /\ nToggle < MaxToggles
    /\ mediaMatches' = ~mediaMatches
    /\ reducedMotion' = mediaMatches'
    /\ nToggle' = nToggle + 1
    /\ UNCHANGED <<hostVars, listeners, props, win, scrollY, clock, gridVars,
                   motionVars, frameVars, mounted, resizeFrame, loop, rafQueue, batch, frameT,
                   nScroll, nResize>>

\* the render effect's cleanup without its cancelAnimationFrame
keepPendingDraw(q) == q

\* if (rafRef.current) cancelAnimationFrame(rafRef.current), line 299
cancelPendingDraw(q) == Cancel(q, rafRef)

\* React commits the render that follows a change of reducedMotion: the
\* render effect's cleanup (lines 297-300), then the effect again (lines
\* 188-296), which returns early without a context
Commit ==
    /\ mounted /\ batch = <<>>
    /\ reducedMotion # loop.reduced
    /\ IF ctx
       THEN /\ loop' = [epoch |-> loop.epoch + 1, running |-> TRUE, reduced |-> reducedMotion]
            /\ rafRef' = NewHandle
            /\ rafQueue' = Request(cancelPendingDraw(rafQueue), NewHandle, "draw",
                                   loop.epoch + 1)
       ELSE /\ loop' = [loop EXCEPT !.reduced = reducedMotion]
            /\ UNCHANGED <<rafRef, rafQueue>>
    /\ UNCHANGED <<hostVars, listeners, envVars, gridVars, motionVars,
                   scrambleMapRef, lastTimestampRef, render, mounted, reducedMotion,
                   resizeFrame, batch, frameT, countVars>>

\* unmount: the cleanups of lines 43, 149-152, 182-185 and 297-300
Unmount ==
    /\ mounted /\ batch = <<>>
    /\ mounted' = FALSE
    /\ listeners' = {}
    /\ loop' = [loop EXCEPT !.running = FALSE]
    /\ rafQueue' = cancelPendingDraw(cancelPendingGrid(rafQueue))
    /\ UNCHANGED <<hostVars, envVars, gridVars, motionVars, frameVars,
                   reducedMotion, resizeFrame, batch, frameT, countVars>>

\* the browser starts an animation frame: the callbacks requested so far run,
\* in request order, with the frame's timestamp
BeginFrame(d) ==
    /\ batch = <<>>
    /\ rafQueue # <<>>
    /\ clock + d <= MaxClock
    /\ clock' = clock + d
    /\ frameT' = clock'
    /\ batch' = rafQueue
    /\ rafQueue' = <<>>
    /\ UNCHANGED <<hostVars, listeners, props, win, scrollY, mediaMatches,
                   gridVars, motionVars, frameVars, mounted, reducedMotion, resizeFrame, loop,
                   countVars>>

\* the callback requested by onResize: () => computeGrid(ctx)
RunGrid ==
    /\ batch # <<>>
    /\ Head(batch).cb = "grid"
    /\ batch' = Tail(batch)
    /\ computeGrid
    /\ UNCHANGED <<hostVars, listeners, envVars, seedKey, motionVars, frameVars,
                   mounted, reducedMotion, resizeFrame, loop, rafQueue, frameT, countVars>>

\* the guard the wrong way round: if (running) return
LiveInverted(ep) == ~(loop.running /\ ep = loop.epoch)

\* `running` of the closure that requested the callback (lines 195, 212, 298):
\* true for the effect in force until its cleanup
Live(ep) == loop.running /\ ep = loop.epoch

\* the next frame requested only while the document is visible
RescheduleIfVisible(vis, q, h, ep) ==
    IF vis # "hidden" THEN Request(q, h, "draw", ep) ELSE q

\* lines 289-293: both branches request the next frame
Reschedule(vis, q, h, ep) ==
    IF vis # "hidden" THEN Request(q, h, "draw", ep) ELSE Request(q, h, "draw", ep)

\* a frame that lets the velocity estimate decay
DrawDecaysVelocity ==
    /\ velocityRef' = (velocityRef * 9) \div 10
    /\ UNCHANGED <<gridVars, scrollTargetRef, lastScrollRef, mouseOffsetRef>>

\* what draw only reads (lines 214-215, 232, 235-236, 240) or does not use
DrawUntouched ==
    UNCHANGED <<gridVars, scrollTargetRef, velocityRef, lastScrollRef, mouseOffsetRef>>

\* draw(t), lines 222-293, for the running loop
DrawBody(vis, lag, gate, picks) ==
    LET gm == gridRef[1]
        reduced == loop.reduced
        parallaxTarget == 0 - scrollTargetRef * (IF reduced THEN 0 ELSE props.parallaxStrength)
        smoothed == lerp(scrollSmoothedRef, parallaxTarget, SmoothFactor)
        driftX == IF reduced THEN 0 ELSE mouseOffsetRef.x
        driftY == IF reduced THEN 0 ELSE mouseOffsetRef.y
        total == gm.cols * gm.rows
        \* both performance.now() calls of the frame (lines 247 and 257)
        nowIns == clock + lag
        nowPurge == nowIns
        afterIns == IF gate THEN InsertAll(scrambleMapRef, picks, nowIns) ELSE scrambleMapRef
        afterPurge == IF reduced THEN ReducedClear(scrambleMapRef) ELSE Purge(afterIns, nowPurge)
    IN  /\ lastTimestampRef' = frameT
        /\ scrollSmoothedRef' = smoothed
        /\ scrambleMapRef' = afterPurge
        /\ clock' = IF reduced THEN clock ELSE nowPurge
        /\ render' = <<[t |-> frameT,
                      now |-> IF reduced THEN frameT ELSE nowPurge,
                      reduced |-> reduced,
                      hidden |-> vis = "hidden",
                      leftover |-> Cardinality(scrambleMapRef),
                      total |-> total,
                      baseLen |-> Len(baseGridRef[1]),
                      inserted |-> {picks[i].idx : i \in DOMAIN picks},
                      purged |-> afterIns \ afterPurge,
                      map |-> afterPurge,
                      used |-> {e \in afterPurge : e.idx < total},
                      reads |-> {i \in 0..(total - 1) : \A e \in afterPurge : e.idx # i},
                      parallax |-> smoothed,
                      driftX |-> driftX,
                      driftY |-> driftY]>>
        /\ rafRef' = NewHandle
        /\ rafQueue' = Reschedule(vis, rafQueue, NewHandle, loop.epoch)

\* document.visibilityState as a frame may read it (line 289)
Visibilities == {"visible", "hidden"}

\* what the frame may draw from Math.random() and the clock
DrawChoices ==
    LET total == gridRef[1].cols * gridRef[1].rows
        p == ScrambleP(velocityRef, win)
        mayInsert == ~loop.reduced /\ PGate(p)
        count == ScrambleCount(total, p)
    IN  {[lag |-> l, gate |-> FALSE, picks |-> <<>>] :
            l \in (IF loop.reduced THEN {0} ELSE Lags)}
        \cup
        {[lag |-> l, gate |-> TRUE, picks |-> ps] :
            l \in Lags,
            ps \in (IF mayInsert THEN [1..count -> Picks(total, props.glyphsLen)] ELSE {})}

\* one callback of the frame being run: draw(t), lines 211-294
RunDraw ==
    /\ batch # <<>>
    /\ Head(batch).cb = "draw"
    /\ batch' = Tail(batch)
    /\ IF ~Live(Head(batch).ep)
       THEN \* if (!running) return
            UNCHANGED <<clock, scrollSmoothedRef, frameVars, rafQueue>>
       ELSE IF gridRef = NoGrid \/ baseGridRef = NoGrid
       THEN \* lines 216-220
            /\ lastTimestampRef' = frameT
            /\ rafRef' = NewHandle
            /\ rafQueue' = Request(rafQueue, NewHandle, "draw", loop.epoch)
            /\ UNCHANGED <<clock, scrollSmoothedRef, scrambleMapRef, render>>
       ELSE \E vis \in Visibilities, c \in DrawChoices : DrawBody(vis, c.lag, c.gate, c.picks)
    /\ DrawUntouched
    /\ UNCHANGED <<hostVars, listeners, props, win, scrollY, mediaMatches, mounted,
                   reducedMotion, resizeFrame, loop, frameT, countVars>>

(***************************************************************************)
(* Harness for the generator: generators created from seeds and called in  *)
(* any interleaving                                                        *)
(***************************************************************************)
MaxCalls == 3

LongCalls == 10000

Gens == {1, 2}

\* seeds handed to createSeededRandom: 0, 1, 0xFFFFFFFF, the substitute seed
\* itself, 2^32 and 2^32 + 1 (beyond 32 bits), -1 and -2^31 (negative, as the
\* signed result of ^ can be)
Seeds ==
    { <<0, 0>>, <<0, 1>>, <<65535, 65535>>, GoldenSeed,
      <<65536, 0>>, <<65536, 1>>, <<-1, 65535>>, <<-32768, 0>> }

\* `let s` hoisted to module scope: one cell for all generators
CellShared(g) == 1

\* the cell holding generator g's closure variable: `let s` is declared inside
\* createSeededRandom, so every generator has a cell of its own
Cell(g) == g

prngVars == <<seedIn, cells, outs>>
longVars == <<longSeed, longS, longCalls, longOut>>
vars == <<prngVars, longVars, widgetVars>>

PrngInit ==
    /\ seedIn \in [Gens -> Seeds]
    /\ cells = [c \in Gens |-> createSeededRandom(seedIn[c])]
    /\ outs = [g \in Gens |-> <<>>]

\* one call of generator g's rand()
Call(g) ==
    /\ Len(outs[g]) < MaxCalls
    /\ LET s1 == Advance(cells[Cell(g)])
       IN  /\ cells' = [cells EXCEPT ![Cell(g)] = s1]
           /\ outs' = [outs EXCEPT ![g] = Append(@, Mix(s1))]
    /\ UNCHANGED seedIn

LongInit ==
    /\ longSeed \in Seeds
    /\ longS = createSeededRandom(longSeed)
    /\ longCalls = 0
    /\ longOut = <<0, 0>>

LongCall ==
    /\ longCalls < LongCalls
    /\ longS' = Advance(longS)
    /\ longOut' = Mix(longS')
    /\ longCalls' = longCalls + 1
    /\ UNCHANGED longSeed

(***************************************************************************)
(* Harness for computeGrid: a viewport and a density, then grid            *)
(* computations and viewport changes                                       *)
(***************************************************************************)
MaxGridCalls == 2

\* density multipliers in hundredths: unset, 0, values rounding to just below
\* 16 and just above 24, the two defaults, 100 and a negative one
Densities == {Unset, <<0>>, <<77>>, <<90>>, <<100>>, <<112>>, <<123>>, <<10000>>, <<-100>>}

GridLayouts ==
    { [iw |-> 1024, ih |-> 768, cw |-> 100, ch |-> 50],
      [iw |-> 1024, ih |-> 768, cw |-> 47, ch |-> 16],
      [iw |-> 1024, ih |-> 768, cw |-> 0, ch |-> 0],
      [iw |-> 500, ih |-> 800, cw |-> 100, ch |-> 50],
      [iw |-> 500, ih |-> 800, cw |-> 15, ch |-> 95],
      [iw |-> 767, ih |-> 400, cw |-> 71, ch |-> 24] }

\* a 1024 x 768 window filled by the canvas
DesktopViewport == [iw |-> 1024, ih |-> 768, cw |-> 1024, ch |-> 768]

GridInit ==
    /\ props \in { [density |-> d, glyphsLen |-> 36,
                    parallaxStrength |-> (8 * Scale) \div 100,
                    scrambleFrequency |-> (8 * Scale) \div 100] : d \in Densities }
    /\ win \in GridLayouts \cup (IF props.density = Unset THEN {DesktopViewport} ELSE {})
    /\ seedKey = SeedKeyOf(win)
    /\ randS = createSeededRandom(seedKey)
    /\ gridRef = NoGrid
    /\ baseGridRef = NoGrid
    /\ gridCalls = <<>>

GridCompute ==
    /\ Len(gridCalls) < MaxGridCalls
    /\ computeGrid
    /\ UNCHANGED <<props, win, seedKey>>

GridViewport(w) ==
    /\ Len(gridCalls) < MaxGridCalls
    /\ gridRef # NoGrid
    /\ w # win
    /\ win' = w
    /\ UNCHANGED <<props, gridVars>>

(***************************************************************************)
(* Specifications                                                          *)
(***************************************************************************)
GenIdle ==
    /\ seedIn = [g \in Gens |-> <<0, 0>>]
    /\ cells = [c \in Gens |-> <<0, 0>>]
    /\ outs = [g \in Gens |-> <<>>]

LongIdle ==
    /\ longSeed = <<0, 0>> /\ longS = <<0, 0>> /\ longCalls = 0 /\ longOut = <<0, 0>>

\* the widget's variables the grid harness does not use
OffGridIdle ==
    /\ isClient = TRUE /\ ctx = TRUE /\ listeners = {}
    /\ scrollY = 0 /\ mediaMatches = FALSE /\ clock = 0
    /\ mounted = FALSE /\ reducedMotion = FALSE
    /\ scrambleMapRef = {} /\ lastTimestampRef = 0
    /\ scrollTargetRef = 0 /\ scrollSmoothedRef = 0 /\ velocityRef = 0
    /\ lastScrollRef = [y |-> 0, t |-> 0] /\ mouseOffsetRef = [x |-> 0, y |-> 0]
    /\ rafRef = 0 /\ resizeFrame = 0
    /\ loop = [epoch |-> 0, running |-> FALSE, reduced |-> FALSE]
    /\ rafQueue = <<>> /\ batch = <<>> /\ frameT = 0
    /\ render = NoRender
    /\ nScroll = 0 /\ nResize = 0 /\ nToggle = 0

WidgetIdle ==
    /\ OffGridIdle
    /\ props = [density |-> Unset, glyphsLen |-> 0, parallaxStrength |-> 0,
                scrambleFrequency |-> 0]
    /\ win = [iw |-> 0, ih |-> 0, cw |-> 0, ch |-> 0]
    /\ seedKey = <<0, 0>> /\ randS = <<0, 0>>
    /\ gridRef = NoGrid /\ baseGridRef = NoGrid /\ gridCalls = <<>>

offGridVars ==
    <<hostVars, listeners, scrollY, mediaMatches, clock, motionVars, frameVars,
      effectVars, countVars>>

\* the widget
Init == WidgetInit /\ GenIdle /\ LongIdle

DoScroll == \E y \in ScrollYs, d \in ScrollSteps : Scroll(y, d) /\ UNCHANGED <<prngVars, longVars>>
DoMouseMove == \E c \in Pointers : MouseMove(c) /\ UNCHANGED <<prngVars, longVars>>
DoResize == \E w \in Layouts : Resize(w) /\ UNCHANGED <<prngVars, longVars>>
DoMediaChange == MediaChange /\ UNCHANGED <<prngVars, longVars>>
DoCommit == Commit /\ UNCHANGED <<prngVars, longVars>>
DoUnmount == Unmount /\ UNCHANGED <<prngVars, longVars>>
DoBeginFrame == \E d \in FrameSteps : BeginFrame(d) /\ UNCHANGED <<prngVars, longVars>>
DoRunGrid == RunGrid /\ UNCHANGED <<prngVars, longVars>>
DoRunDraw == RunDraw /\ UNCHANGED <<prngVars, longVars>>

Next ==
    \/ DoScroll
    \/ DoMouseMove
    \/ DoResize
    \/ DoMediaChange
    \/ DoCommit
    \/ DoUnmount
    \/ DoBeginFrame
    \/ DoRunGrid
    \/ DoRunDraw

Spec == Init /\ [][Next]_vars

\* two generators
CallGen == \E g \in Gens : Call(g) /\ UNCHANGED <<longVars, widgetVars>>
NextPrng == CallGen
InitPrng == PrngInit /\ LongIdle /\ WidgetIdle
SpecPrng == InitPrng /\ [][NextPrng]_vars

\* one generator, called LongCalls times
CallLong == LongCall /\ UNCHANGED <<prngVars, widgetVars>>
NextPrngLong == CallLong
InitPrngLong == LongInit /\ GenIdle /\ WidgetIdle
SpecPrngLong == InitPrngLong /\ [][NextPrngLong]_vars

\* computeGrid alone
DoGridCompute == GridCompute /\ UNCHANGED <<prngVars, longVars, offGridVars>>
DoGridViewport ==
    \E w \in GridLayouts : GridViewport(w) /\ UNCHANGED <<prngVars, longVars, offGridVars>>
NextGrid == DoGridCompute \/ DoGridViewport
InitGrid == GridInit /\ OffGridIdle /\ GenIdle /\ LongIdle
SpecGrid == InitGrid /\ [][NextGrid]_vars

(***************************************************************************)
(* Claims about the generator                                              *)
(***************************************************************************)
InU32(n) == n[1] >= 0 /\ n[1] < B16 /\ n[2] >= 0 /\ n[2] < B16

\* C1: two generators created with the same seed return identical values on
\* their 1st, 2nd, ..., n-th calls, however their calls interleave.
C1_SameSeedSameSequence ==
    seedIn[1] = seedIn[2] =>
        \A i \in 1..MaxCalls :
            (i <= Len(outs[1]) /\ i <= Len(outs[2])) => outs[1][i] = outs[2][i]

C1_Witness ==
    /\ seedIn[1] = seedIn[2]
    /\ Len(outs[1]) = MaxCalls
    /\ Len(outs[2]) = MaxCalls - 1
    /\ outs[1][1] # outs[1][2]

\* C2: every value returned over LongCalls consecutive calls is in [0, 1):
\* its numerator is an integer in 0..2^32-1; this for every seed, 0 included.
C2_OutputInUnitInterval == InU32(longOut)

C2_Witness == longSeed = <<0, 0>> /\ longCalls = LongCalls /\ longS[1] >= B16

(***************************************************************************)
(* Claims about the grid                                                   *)
(***************************************************************************)
\* C3: two grid computations with the same inputs (viewport, density, glyph
\* alphabet) produce identical base glyph buffers, a resize-triggered
\* recomputation in the same mounted widget included.
C3_SameInputsSameBuffer ==
    \A i \in DOMAIN gridCalls : \A j \in DOMAIN gridCalls :
        gridCalls[i].inputs = gridCalls[j].inputs => gridCalls[i].buf = gridCalls[j].buf

LastInputs == gridCalls[Len(gridCalls)].inputs

\* C8: after any computeGrid call the cell size lies in [16, 24], for every
\* density multiplier (0, 100, negative, unset).
C8_CellClamped ==
    gridRef # NoGrid => (gridRef[1].cell >= CellMin /\ gridRef[1].cell <= CellMax)

C8_Witness ==
    /\ gridRef # NoGrid
    /\ props.density = <<10000>>
    /\ gridRef[1].cell = CellMax

\* C9: after any computeGrid call cols and rows are non-negative integers and
\* cols * cell <= canvas width, rows * cell <= canvas height.
C9_CountsFit ==
    gridRef # NoGrid =>
        /\ gridRef[1].cols \in Nat /\ gridRef[1].rows \in Nat
        /\ gridRef[1].cols * gridRef[1].cell <= LastInputs.cw
        /\ gridRef[1].rows * gridRef[1].cell <= LastInputs.ch

C9_Witness ==
    /\ gridRef # NoGrid
    /\ gridRef[1].cols > 0
    /\ gridRef[1].cols * gridRef[1].cell < LastInputs.cw
    /\ gridRef[1].rows * gridRef[1].cell < LastInputs.ch

\* C10: after any computeGrid call offsetX >= 0, offsetY >= 0 and
\* offsetX <= cell.
C10_OffsetsBounded ==
    gridRef # NoGrid =>
        /\ gridRef[1].offsetX >= 0
        /\ gridRef[1].offsetY >= 0
        /\ gridRef[1].offsetX <= gridRef[1].cell

C10_Witness ==
    /\ gridRef # NoGrid
    /\ gridRef[1].offsetX > 0
    /\ gridRef[1].offsetY > 0

(***************************************************************************)
(* Claims about the frame                                                  *)
(***************************************************************************)
\* C4: in a frame drawn with reduced motion active the scramble set is empty
\* at the render pass and nothing was inserted, whatever was left in the set.
C4_ReducedScrambleEmpty ==
    (render # NoRender /\ render[1].reduced) => (render[1].map = {} /\ render[1].inserted = {})

C4_Witness == render # NoRender /\ render[1].reduced /\ render[1].leftover > 0

\* C5: in a frame drawn with reduced motion active the parallax offset applied
\* to the grid translation is zero.
C5_ReducedParallaxZero ==
    (render # NoRender /\ render[1].reduced) =>
        (render[1].parallax = 0 /\ render[1].driftX = 0 /\ render[1].driftY = 0)

\* C6: no scramble entry is used by the render pass of a frame whose timestamp
\* is at or past the entry's expiry: every entry the pass uses expires after
\* the frame's timestamp and after the time of the purge.
C6_NoExpiredRendered ==
    render # NoRender =>
        \A e \in render[1].used : e.until > render[1].t /\ e.until > render[1].now

C6_Witness ==
    /\ render # NoRender
    /\ \E e \in render[1].purged : e.until = render[1].t
    /\ render[1].used # {}

\* C7: every index inserted into the scramble set is a cell index of the grid
\* in force, 0 <= idx < cols * rows, an empty grid included.
C7_InsertedIndexValid ==
    render # NoRender => \A i \in render[1].inserted : i >= 0 /\ i < render[1].total

(***************************************************************************)
(* Claims about the generator's state and seed                             *)
(***************************************************************************)
\* C15: the generator's state s is a 32-bit value, an integer in 0..2^32-1,
\* after construction and after every call of rand().
C15_StateIs32Bit == InU32(longS)

SameMod32(a, b) == a[2] = b[2] /\ (a[1] - b[1]) % B16 = 0

SamePrefix(a, b) == \A i \in 1..MaxCalls : (i <= Len(a) /\ i <= Len(b)) => a[i] = b[i]

\* C16: two generators whose seeds are equal modulo 2^32 return the same
\* sequence, and a generator whose seed is 0 modulo 2^32 returns the sequence
\* of seed 0x9e3779b9.
C16_SeedNormalised ==
    \A g, h \in Gens :
        (\/ SameMod32(seedIn[g], seedIn[h])
         \/ (SameMod32(seedIn[g], <<0, 0>>) /\ seedIn[h] = GoldenSeed))
            => SamePrefix(outs[g], outs[h])

C16_Witness ==
    /\ seedIn[1] = <<B16, 0>>
    /\ seedIn[2] = GoldenSeed
    /\ Len(outs[1]) = MaxCalls
    /\ Len(outs[2]) = MaxCalls

(***************************************************************************)
(* Claims about the grid of a desktop viewport                             *)
(***************************************************************************)
\* C11: for a 1024 x 768 viewport with density unset, computeGrid yields cell
\* size 20, 51 columns and 38 rows, and offsets that are the floor of half the
\* leftover margin on each axis.
C11_DesktopGrid ==
    (gridCalls # <<>> /\ LastInputs = GridInputs(DesktopViewport) /\ props.density = Unset) =>
        /\ gridRef[1].cell = 20
        /\ gridRef[1].cols = 51
        /\ gridRef[1].rows = 38
        /\ gridRef[1].offsetX = (1024 - 51 * 20) \div 2
        /\ gridRef[1].offsetY = (768 - 38 * 20) \div 2
        /\ Len(baseGridRef[1]) = 51 * 38

C11_Witness ==
    /\ gridCalls # <<>>
    /\ LastInputs = GridInputs(DesktopViewport)
    /\ props.density = Unset
    /\ gridRef[1].offsetX = 2
    /\ gridRef[1].offsetY = 4

(***************************************************************************)
(* Claims about the render loop and the animation-frame requests           *)
(***************************************************************************)
\* the requests not yet run: those of the frame being run, then the queue
Pending == batch \o rafQueue

RECURSIVE CountCb(_, _)
CountCb(q, cb) ==
    IF q = <<>> THEN 0 ELSE (IF Head(q).cb = cb THEN 1 ELSE 0) + CountCb(Tail(q), cb)

\* a step in which a draw callback of the effect in force runs
FrameRuns ==
    /\ batch # <<>>
    /\ Head(batch).cb = "draw"
    /\ loop.running
    /\ Head(batch).ep = loop.epoch
    /\ batch' = Tail(batch)

\* C12: while the loop runs a frame request is pending after every frame; the
\* loop stops only by unmounting, and after the cleanup no frame body runs and
\* no frame is requested.
C12_LoopUntilCleanup ==
    /\ [](loop.running => CountCb(Pending, "draw") >= 1)
    /\ [][(loop.running /\ ~loop.running') => (mounted /\ ~mounted')]_vars
    /\ [][~mounted => (render' = render /\ rafRef' = rafRef /\ rafQueue' = rafQueue
                          /\ lastTimestampRef' = lastTimestampRef)]_vars

C12_Witness == ~mounted /\ render # NoRender /\ rafRef # 0 /\ Pending = <<>>

\* C13: at most one grid recomputation is queued at any time; resize events
\* before a tick leave exactly one queued, each tick runs at most one (so the
\* computations never outnumber the mount plus the resize events), and none is
\* left to run after the cleanup.
C13_OneGridQueued ==
    /\ CountCb(Pending, "grid") <= 1
    /\ (mounted /\ "resize" \in listeners /\ nResize >= 1 /\ Len(gridCalls) = 1)
           => CountCb(Pending, "grid") = 1
    /\ Len(gridCalls) + CountCb(Pending, "grid") <= 1 + nResize
    /\ ~mounted => CountCb(Pending, "grid") = 0

C13_Witness ==
    /\ nResize = 2
    /\ Len(gridCalls) = 1
    /\ CountCb(rafQueue, "grid") = 1
    /\ batch = <<>>

\* C14: without a drawing context or without a window nothing is started: no
\* grid is computed, no frame is requested, and no resize, scroll or pointer
\* listener is registered.
C14_NothingStarted ==
    (~isClient \/ ~ctx) =>
        /\ gridCalls = <<>>
        /\ gridRef = NoGrid
        /\ Pending = <<>>
        /\ rafRef = 0
        /\ listeners \cap {"resize", "scroll", "mousemove"} = {}

\* C17: every frame a running loop executes requests exactly one next frame,
\* whether the document is visible or hidden.
C17_FrameRequestsNext ==
    [][FrameRuns =>
          /\ rafRef' # rafRef
          /\ rafRef' \notin HandlesOf(rafQueue) \cup HandlesOf(batch')
          /\ rafQueue' = Append(rafQueue, [h |-> rafRef', cb |-> "draw", ep |-> loop.epoch])]_vars

C17_Witness ==
    /\ render # NoRender
    /\ render[1].hidden
    /\ batch = <<>>
    /\ rafQueue = <<[h |-> rafRef, cb |-> "draw", ep |-> loop.epoch]>>

\* C18: the base buffer always has cols * rows elements; the render pass reads
\* it only at indices below that, and uses no scramble entry whose index is
\* cols * rows or more.
C18_BufferMatchesGrid ==
    /\ (gridRef = NoGrid) = (baseGridRef = NoGrid)
    /\ gridRef # NoGrid => Len(baseGridRef[1]) = gridRef[1].cols * gridRef[1].rows
    /\ render # NoRender =>
          /\ render[1].baseLen = render[1].total
          /\ \A i \in render[1].reads : i >= 0 /\ i < render[1].baseLen
          /\ \A e \in render[1].used : e.idx >= 0 /\ e.idx < render[1].baseLen

C18_Witness ==
    /\ render # NoRender
    /\ Len(gridCalls) >= 2
    /\ \E e \in render[1].map : e.idx >= render[1].total /\ e.idx \notin render[1].inserted

\* C19: at most one draw request is outstanding at any time, and it belongs
\* to the effect in force.
C19_OneDrawOutstanding ==
    /\ CountCb(Pending, "draw") <= 1
    /\ \A i \in DOMAIN Pending : Pending[i].cb = "draw" => Pending[i].ep = loop.epoch

C19_Witness ==
    /\ loop.epoch >= 2
    /\ render # NoRender
    /\ render[1].reduced = loop.reduced
    /\ CountCb(rafQueue, "draw") = 1

\* C20: a frame leaves the grid metrics, the base buffer, the scroll target,
\* the velocity estimate and the pointer offsets as they were, and the
\* velocity estimate changes in the scroll handler only.
C20_FrameEffect ==
    /\ [][(batch # <<>> /\ Head(batch).cb = "draw" /\ batch' = Tail(batch)) =>
             UNCHANGED <<gridRef, baseGridRef, scrollTargetRef, velocityRef, mouseOffsetRef>>]_vars
    /\ [][velocityRef' # velocityRef => nScroll' = nScroll + 1]_vars

C20_Witness ==
    /\ render # NoRender
    /\ velocityRef > 0
    /\ mouseOffsetRef.x # 0
    /\ render[1].t > lastScrollRef.t

====
